---- MODULE Spec2Model ----
(***************************************************************************)
(* A model of pywhispercpp.model: the Model handle over the whisper.cpp    *)
(* bindings (construction, transcribe, auto_detect_language, teardown),    *)
(* its parameter assignment, the process-wide new-segment callback slot    *)
(* and the audio loader.                                                   *)
(*                                                                         *)
(* Four specifications share the module:                                   *)
(*   SpecLoad    the audio loader and the media resolution in front of it  *)
(*   SpecParams  parameter assignment (_set_params)                        *)
(*   Spec        one Model handle, every way its operations can go         *)
(*   SpecShared  two handles sharing the new-segment callback slot         *)
(***************************************************************************)
EXTENDS Integers, Sequences, FiniteSets, TLC

(***************************************************************************)
(* Bounds of the model.                                                    *)
(***************************************************************************)
\* the longest WAV payload, in frames
MaxFrames == 2
\* the most keyword arguments one call passes as parameter overrides
MaxKwargs == 2
\* the most segments one decode produces
MaxSegs == 2
\* the most transcribe and auto_detect_language calls made on one handle
MaxCalls == 2

(***************************************************************************)
(* Program constants.                                                      *)
(***************************************************************************)
\* pw.WHISPER_SAMPLE_RATE, the only frame rate wav_to_np accepts
WHISPER_SAMPLE_RATE == 16000
\* the sample width, in bytes, wav_to_np accepts
SAMPLE_WIDTH == 2
\* the mono and the stereo normalisation constants
MONO_SCALE == 32768
STEREO_SCALE == 65536

VARIABLES
    \* ---- the audio loader (SpecLoad) ----
    l_pc,        \* where the call in progress stands
    l_caller,    \* "direct" | "transcribe" | "detect"
    l_media,     \* the media argument of the call
    l_temp,      \* the temporary WAV file: [exists, content]
    l_lookups,   \* shutil.which('ffmpeg') calls made by the call
    l_temps,     \* temporary files created by the call
    l_runs,      \* converter processes started by the call
    l_pending,   \* outcome of the try block, held while finally runs
    l_audio,     \* the buffer returned (<<>> while there is none)
    l_err,       \* the error raised ("" while there is none)
    l_continued, \* control passed beyond media resolution, towards the engine
    \* ---- parameter assignment (SpecParams) ----
    p_pc,        \* "none" | "ready" | "failed": the constructor's outcome
    p_params,    \* self._params: field name -> value
    p_before,    \* self._params as the last _set_params call found it
    p_kwargs,    \* the overrides of the last _set_params call
    p_err,       \* the error the last _set_params call raised ("" for none)
    \* ---- Model handles (Spec, SpecShared) ----
    serialised,  \* the caller runs one transcribe at a time, as it is told to
    slot,        \* Model._new_segment_callback, the class attribute
    registered,  \* history: the callback of the last call that registered one
    h_pc,        \* per handle: "none" | "ready" | "decoding" | "decoded" |
                 \*             "failed" | "deleted"
    h_ctx,       \* self._ctx: "unset" (no such attribute) | "None" | "live" |
                 \*            "null" (init gave no context) | "freed"
    h_params,    \* self._params
    h_hook,      \* self._params has the new-segment hook assigned
    h_segs,      \* the segments the context holds, as the engine stores them
    h_calls,     \* calls started on the handle
    h_cb,        \* the new_segment_callback argument of the current call
    h_op,        \* the engine entry point the current call used
    h_rc,        \* what the decode of the current call returned
    h_delivered, \* the user-callback invocations of the current call, in order
    h_ret,       \* what the last call returned or raised
    h_used,      \* the states of self._ctx the engine was called with
    h_frees,     \* whisper_free calls made for the handle
    h_delfail    \* __del__ raised

loadVars == <<l_pc, l_caller, l_media, l_temp, l_lookups, l_temps, l_runs,
              l_pending, l_audio, l_err, l_continued>>

paramVars == <<p_pc, p_params, p_before, p_kwargs, p_err>>

handleVars == <<serialised, slot, registered, h_pc, h_ctx, h_params, h_hook,
                h_segs, h_calls, h_cb, h_op, h_rc, h_delivered, h_ret, h_used,
                h_frees, h_delfail>>

vars == <<loadVars, paramVars, handleVars>>

\* what the loader's steps, and parameter assignment, leave alone
outsideLoad == <<paramVars, handleVars>>
outsideParams == <<loadVars, handleVars>>
outsideHandles == <<loadVars, paramVars>>

(***************************************************************************)
(* Files.  A WAV payload as the wave module reports it; a file that is no  *)
(* RIFF/WAVE file has riff = FALSE.                                        *)
(***************************************************************************)
SampleVals == {-32768, 32767}

Samples(n) == [1..n -> SampleVals]

WavContents ==
    UNION { UNION { UNION { UNION {
        { [riff |-> TRUE, nchannels |-> c, sampwidth |-> w, framerate |-> r,
           nframes |-> n, data |-> d] : d \in Samples(n * c) }
        : n \in 0..MaxFrames } : r \in {8000, WHISPER_SAMPLE_RATE} } : w \in {1, SAMPLE_WIDTH} }
        : c \in {1, 2, 3} }

Garbage == [riff |-> FALSE, nchannels |-> 0, sampwidth |-> 0, framerate |-> 0,
            nframes |-> 0, data |-> <<>>]

Contents == WavContents \cup {Garbage}

\* A media argument: a numpy array, or a path (existing or not, named *.wav
\* or not).  Only a *.wav file's content is ever read by the loader.
NdArray == [nd |-> TRUE, exists |-> FALSE, wav |-> FALSE, content |-> Garbage]

Paths ==
    { [nd |-> FALSE, exists |-> TRUE, wav |-> TRUE, content |-> c] : c \in Contents }
    \cup { [nd |-> FALSE, exists |-> e, wav |-> w, content |-> Garbage] :
             e \in BOOLEAN, w \in BOOLEAN }

NoTemp == [exists |-> FALSE, content |-> Garbage]

(***************************************************************************)
(* wav_to_np: the header checks in the code's order, then one float per    *)
(* frame; a float is kept as the pair <<numerator, denominator>>.          *)
(***************************************************************************)
\* wav_to_np without its sample-width check
wav_to_np_no_width_check(c) ==
    IF ~c.riff THEN [ok |-> FALSE, err |-> "WaveError", audio |-> <<>>]
    ELSE IF c.nchannels \notin {1, 2}
        THEN [ok |-> FALSE, err |-> "FormatError", audio |-> <<>>]
    ELSE IF c.framerate # WHISPER_SAMPLE_RATE
        THEN [ok |-> FALSE, err |-> "FormatError", audio |-> <<>>]
    ELSE [ok |-> TRUE, err |-> "",
          audio |-> [i \in 1..Len(c.data) |-> <<c.data[i], MONO_SCALE>>]]

wav_to_np(c) ==
    IF ~c.riff THEN [ok |-> FALSE, err |-> "WaveError", audio |-> <<>>]
    ELSE IF c.nchannels \notin {1, 2}
        THEN [ok |-> FALSE, err |-> "FormatError", audio |-> <<>>]
    ELSE IF c.framerate # WHISPER_SAMPLE_RATE
        THEN [ok |-> FALSE, err |-> "FormatError", audio |-> <<>>]
    ELSE IF c.sampwidth # SAMPLE_WIDTH
        THEN [ok |-> FALSE, err |-> "FormatError", audio |-> <<>>]
    ELSE IF c.nchannels = 1
        THEN [ok |-> TRUE, err |-> "",
              audio |-> [i \in 1..Len(c.data) |-> <<c.data[i], MONO_SCALE>>]]
    ELSE [ok |-> TRUE, err |-> "",
          audio |-> [i \in 1..(Len(c.data) \div 2) |->
                        <<c.data[2 * i - 1] + c.data[2 * i], STEREO_SCALE>>]]

\* wave.open on a path: a missing file is FileNotFoundError
open_and_parse(m) ==
    IF ~m.exists THEN [ok |-> FALSE, err |-> "NotFound", audio |-> <<>>]
    ELSE wav_to_np(m.content)

(***************************************************************************)
(* Parameters.  self._params is the engine's parameter struct: a fixed set *)
(* of fields, and setattr of any other name raises.  A dict of overrides   *)
(* is a sequence of <<name, value>> with distinct names, in the dict's     *)
(* iteration order.                                                        *)
(***************************************************************************)
Strategies == {"GREEDY", "BEAM_SEARCH"}

\* pw.whisper_full_default_params(strategy)
DefaultParams(strategy) ==
    [strategy |-> strategy, n_threads |-> 4, language |-> "en"]

ParamNames == {"n_threads", "language", "unknown_field"}

ParamValues(name) ==
    CASE name = "n_threads" -> {1, 8}
      [] name = "language" -> {"fr", "auto"}
      [] OTHER -> {1}

Kwargs ==
    { kw \in UNION { [1..n -> UNION { { <<nm, v>> : v \in ParamValues(nm) } : nm \in ParamNames }]
                       : n \in 0..MaxKwargs } :
        \A i, j \in DOMAIN kw : i # j => kw[i][1] # kw[j][1] }

\* _set_params that skips the names the struct does not have
RECURSIVE set_params_skip_unknown(_, _)
set_params_skip_unknown(params, kwargs) ==
    IF kwargs = <<>> THEN [params |-> params, err |-> ""]
    ELSE LET param == Head(kwargs)[1]
             value == Head(kwargs)[2]
         IN  IF param \in DOMAIN params
               THEN set_params_skip_unknown([params EXCEPT ![param] = value], Tail(kwargs))
               ELSE set_params_skip_unknown(params, Tail(kwargs))

\* for param in kwargs: setattr(self._params, param, kwargs[param])
RECURSIVE set_params(_, _)
set_params(params, kwargs) ==
    IF kwargs = <<>> THEN [params |-> params, err |-> ""]
    ELSE LET param == Head(kwargs)[1]
             value == Head(kwargs)[2]
         IN  IF param \in DOMAIN params
               THEN set_params([params EXCEPT ![param] = value], Tail(kwargs))
               ELSE [params |-> params, err |-> "UsageError"]

(***************************************************************************)
(* Handles, callbacks, segments.                                           *)
(***************************************************************************)
Handles == {"A", "B"}

Callbacks == {"cbA", "cbB"}

\* how a media argument resolves (lines 117-122): a numpy array, a path
\* that does not exist, a path the loader turns into a buffer, a path the
\* loader fails on
MediaKinds == {"ndarray", "missing", "loadable", "unloadable"}

\* the overrides a call on a handle passes
HandleKwargs ==
    { <<>>, << <<"n_threads", 8>> >>, << <<"unknown_field", 1>> >>,
      << <<"n_threads", 8>>, <<"unknown_field", 1>> >> }

\* The text bytes the engine reports for its i-th segment: 32 is a space,
\* 255 a byte that is no UTF-8.
RawTexts == << <<32, 97>>, <<97, 255, 32>>, <<32, 32>> >>

RawSegment(call, i) ==
    [t0 |-> 100 * call + 10 * (i - 1), t1 |-> 100 * call + 10 * i,
     text |-> RawTexts[((i - 1) % Len(RawTexts)) + 1]]

\* bytes.decode('utf-8', errors='replace')
decode(bytes) == [i \in 1..Len(bytes) |-> IF bytes[i] < 128 THEN bytes[i] ELSE 65533]

\* str.strip()
RECURSIVE lstrip(_)
lstrip(text) ==
    IF text # <<>> /\ Head(text) = 32 THEN lstrip(Tail(text)) ELSE text

RECURSIVE rstrip(_)
rstrip(text) ==
    IF text # <<>> /\ text[Len(text)] = 32
      THEN rstrip(SubSeq(text, 1, Len(text) - 1)) ELSE text

strip(text) == rstrip(lstrip(text))

\* Segment(t0, t1, text.strip())
Segment(raw) == [t0 |-> raw.t0, t1 |-> raw.t1, text |-> strip(decode(raw.text))]

\* Model._get_segments(ctx, start, end), start and end counted from 0
get_segments(segs, start, end) ==
    [i \in 1..(end - start) |-> Segment(segs[start + i])]

\* Model.available_languages()[pw.whisper_full_lang_id(ctx)], the engine
\* reporting language id 0
LangOf(segs) == "en"

NoResult == [kind |-> "none", segs |-> <<>>, lang |-> "", rc |-> "", err |-> ""]

Raised(err) == [kind |-> "raised", segs |-> <<>>, lang |-> "", rc |-> "", err |-> err]

(***************************************************************************)
(* The state before any call.                                              *)
(***************************************************************************)
LoadIdle ==
    /\ l_pc = "idle"
    /\ l_caller = "direct"
    /\ l_media = NdArray
    /\ l_temp = NoTemp
    /\ l_lookups = 0
    /\ l_temps = 0
    /\ l_runs = 0
    /\ l_pending = [ok |-> FALSE, err |-> "", audio |-> <<>>]
    /\ l_audio = <<>>
    /\ l_err = ""
    /\ l_continued = FALSE


ParamsIdle ==
    /\ p_pc = "none"
    /\ p_params = DefaultParams("GREEDY")
    /\ p_before = DefaultParams("GREEDY")
    /\ p_kwargs = <<>>
    /\ p_err = ""

\* Model.__init__: default params for the strategy, then the **params

HandlesIdle ==
    /\ slot = "none"
    /\ registered = "none"
    /\ h_pc = [h \in Handles |-> "none"]
    /\ h_ctx = [h \in Handles |-> "unset"]
    /\ h_params = [h \in Handles |-> DefaultParams("GREEDY")]
    /\ h_hook = [h \in Handles |-> FALSE]
    /\ h_segs = [h \in Handles |-> <<>>]
    /\ h_calls = [h \in Handles |-> 0]
    /\ h_cb = [h \in Handles |-> "none"]
    /\ h_op = [h \in Handles |-> "none"]
    /\ h_rc = [h \in Handles |-> ""]
    /\ h_delivered = [h \in Handles |-> <<>>]
    /\ h_ret = [h \in Handles |-> NoResult]
    /\ h_used = [h \in Handles |-> {}]
    /\ h_frees = [h \in Handles |-> 0]
    /\ h_delfail = [h \in Handles |-> FALSE]

(***************************************************************************)
(* The loader, one step per statement that touches the outside world.      *)
(***************************************************************************)
StartCall(caller, m, pc, err) ==
    /\ l_pc' = pc
    /\ l_caller' = caller
    /\ l_media' = m
    /\ l_temp' = NoTemp
    /\ l_lookups' = 0
    /\ l_temps' = 0
    /\ l_runs' = 0
    /\ l_pending' = [ok |-> FALSE, err |-> "", audio |-> <<>>]
    /\ l_audio' = <<>>
    /\ l_err' = err
    /\ l_continued' = FALSE
    /\ UNCHANGED outsideLoad

\* Model._load_audio(path), called directly
load_audio_call(m) ==
    /\ l_pc = "idle"
    /\ ~m.nd
    /\ StartCall("direct", m, "dispatch", "")

\* the media resolution of a caller, without its existence check
resolve_media_unchecked(caller, m) ==
    /\ l_pc = "idle"
    /\ IF m.nd
         THEN StartCall(caller, m, "returned", "")
         ELSE StartCall(caller, m, "dispatch", "")

\* the media resolution of transcribe and of auto_detect_language
resolve_media(caller, m) ==
    /\ l_pc = "idle"
    /\ IF m.nd
         THEN StartCall(caller, m, "returned", "")
         ELSE IF ~m.exists
           THEN StartCall(caller, m, "raised", "NotFound")
           ELSE StartCall(caller, m, "dispatch", "")

transcribe_resolve(m) == resolve_media("transcribe", m)

detect_resolve(m) == resolve_media("detect", m)

\* if media_file_path.endswith('.wav'): return wav_to_np(media_file_path)
load_audio_dispatch ==
    /\ l_pc = "dispatch"
    /\ IF l_media.wav
         THEN LET r == open_and_parse(l_media) IN
              /\ l_pc' = IF r.ok THEN "returned" ELSE "raised"
              /\ l_audio' = r.audio
              /\ l_err' = r.err
         ELSE /\ l_pc' = "which"
              /\ UNCHANGED <<l_audio, l_err>>
    /\ UNCHANGED <<l_caller, l_media, l_temp, l_lookups, l_temps, l_runs,
                   l_pending, l_continued,
                   outsideLoad>>

\* if shutil.which('ffmpeg') is None: raise
load_audio_which(installed) ==
    /\ l_pc = "which"
    /\ l_lookups' = l_lookups + 1
    /\ l_pc' = IF installed THEN "mktemp" ELSE "raised"
    /\ l_err' = IF installed THEN "" ELSE "ConversionUnavailable"
    /\ UNCHANGED <<l_caller, l_media, l_temp, l_temps, l_runs, l_pending,
                   l_audio, l_continued,
                   outsideLoad>>

\* tempfile.NamedTemporaryFile(suffix=".wav", delete=False); close()
load_audio_mktemp ==
    /\ l_pc = "mktemp"
    /\ l_temp' = [exists |-> TRUE, content |-> Garbage]
    /\ l_temps' = l_temps + 1
    /\ l_pc' = "convert"
    /\ UNCHANGED <<l_caller, l_media, l_lookups, l_runs, l_pending, l_audio,
                   l_err, l_continued,
                   outsideLoad>>

\* subprocess.run(['ffmpeg', ...], check=True): a non-zero exit raises; a
\* zero exit has written some content to the temporary file
load_audio_convert(exit0, c) ==
    /\ l_pc = "convert"
    /\ l_runs' = l_runs + 1
    /\ IF exit0 /\ l_media.exists
         THEN /\ l_temp' = [exists |-> TRUE, content |-> c]
              /\ l_pc' = "parse"
              /\ UNCHANGED l_pending
         ELSE /\ l_pending' = [ok |-> FALSE, err |-> "ConversionFailed", audio |-> <<>>]
              /\ l_pc' = "finally"
              /\ UNCHANGED l_temp
    /\ UNCHANGED <<l_caller, l_media, l_lookups, l_temps, l_audio, l_err,
                   l_continued,
                   outsideLoad>>

\* return wav_to_np(temp_file_path), inside the try
load_audio_parse ==
    /\ l_pc = "parse"
    /\ l_pending' = wav_to_np(l_temp.content)
    /\ l_pc' = "finally"
    /\ UNCHANGED <<l_caller, l_media, l_temp, l_lookups, l_temps, l_runs,
                   l_audio, l_err, l_continued,
                   outsideLoad>>

\* the temporary file after the try block, were the removal no finally
\* clause but a statement after the conversion
remove_on_success_only(pending, temp) ==
    IF pending.ok THEN NoTemp ELSE temp

\* finally: os.remove(temp_file_path)
finally_remove(pending, temp) == NoTemp

load_audio_finally ==
    /\ l_pc = "finally"
    /\ l_temp' = finally_remove(l_pending, l_temp)
    /\ l_pc' = IF l_pending.ok THEN "returned" ELSE "raised"
    /\ l_audio' = l_pending.audio
    /\ l_err' = l_pending.err
    /\ UNCHANGED <<l_caller, l_media, l_lookups, l_temps, l_runs, l_pending,
                   l_continued,
                   outsideLoad>>

\* transcribe goes on to _set_params and the decode, auto_detect_language to
\* whisper_pcm_to_mel: the only way to an engine call
continue_to_engine ==
    /\ l_pc = "returned"
    /\ l_caller \in {"transcribe", "detect"}
    /\ ~l_continued
    /\ l_continued' = TRUE
    /\ UNCHANGED <<l_pc, l_caller, l_media, l_temp, l_lookups, l_temps,
                   l_runs, l_pending, l_audio, l_err,
                   outsideLoad>>

(***************************************************************************)
(* Parameter assignment as the constructor and transcribe reach it.        *)
(***************************************************************************)
params_construct(strategy, kwargs) ==
    /\ p_pc = "none"
    /\ LET r == set_params(DefaultParams(strategy), kwargs) IN
         /\ p_before' = DefaultParams(strategy)
         /\ p_params' = r.params
         /\ p_err' = r.err
         /\ p_pc' = IF r.err = "" THEN "ready" ELSE "failed"
    /\ p_kwargs' = kwargs
    /\ UNCHANGED outsideParams

\* Model.transcribe: self._set_params(params)
params_transcribe(kwargs) ==
    /\ p_pc = "ready"
    /\ LET r == set_params(p_params, kwargs) IN
         /\ p_before' = p_params
         /\ p_params' = r.params
         /\ p_err' = r.err
    /\ p_kwargs' = kwargs
    /\ UNCHANGED <<p_pc, outsideParams>>


(***************************************************************************)
(* Model handles.  The engine is the environment: what whisper_init_from_  *)
(* file gives, how a decode begins, the segments it reports and how it     *)
(* ends are inputs of the steps below.                                     *)
(***************************************************************************)
\* self._ctx = pw.whisper_init_from_file(self.model_path): a context, a
\* wrapper of no context when the engine could not load the file, or no
\* assignment at all when the call raised
init_model(init) ==
    CASE init = "ok" -> "live"
      [] init = "null" -> "null"
      [] OTHER -> "None"

\* Model.__init__
construct(h, strategy, resolved, kwargs, init) ==
    /\ h_pc[h] = "none"
    /\ LET r == set_params(DefaultParams(strategy), kwargs) IN
         IF ~resolved
           THEN \* resolving the model file raised, before self._ctx = None
                /\ h_pc' = [h_pc EXCEPT ![h] = "failed"]
                /\ UNCHANGED <<h_ctx, h_params>>
           ELSE IF r.err # ""
             THEN /\ h_pc' = [h_pc EXCEPT ![h] = "failed"]
                  /\ h_ctx' = [h_ctx EXCEPT ![h] = "None"]
                  /\ h_params' = [h_params EXCEPT ![h] = r.params]
             ELSE /\ h_pc' = [h_pc EXCEPT ![h] = IF init = "raise" THEN "failed" ELSE "ready"]
                  /\ h_ctx' = [h_ctx EXCEPT ![h] = init_model(init)]
                  /\ h_params' = [h_params EXCEPT ![h] = r.params]
    /\ UNCHANGED <<serialised, slot, registered, h_hook, h_segs, h_calls, h_cb,
                   h_op, h_rc, h_delivered, h_ret, h_used, h_frees, h_delfail,
                   outsideHandles>>

\* the slot, were it assigned only while it is empty
register_callback_keep_first(current, cb) ==
    IF cb # "none" /\ current = "none" THEN cb ELSE current

\* the slot, were it assigned whether or not a callback is supplied
register_callback_always(current, cb) == cb

\* if new_segment_callback: Model._new_segment_callback = new_segment_callback
register_callback(current, cb) ==
    IF cb # "none" THEN cb ELSE current

\* the adapter, were it to report every segment of the context each time
call_new_segment_callback_from_zero(segs, n_new, cb) ==
    LET res == get_segments(segs, 0, Len(segs))
    IN  [i \in 1..Len(res) |-> [seg |-> res[i], to |-> cb]]

\* Model.__call_new_segment_callback(ctx, n_new, user_data): the user
\* callback invocations it makes, cb being Model._new_segment_callback
call_new_segment_callback(segs, n_new, cb) ==
    LET n == Len(segs)
        start == n - n_new
        res == get_segments(segs, start, n)
    IN  [i \in 1..Len(res) |-> [seg |-> res[i], to |-> cb]]

InCall(h) == h_pc[h] \in {"decoding", "decoded"}

\* Model.transcribe up to the engine's decode taking over: media
\* resolution, _set_params, callback registration, the call of whisper_full
\* or whisper_full_parallel, which raises, fails before touching its
\* results, or starts decoding from an empty result list
transcribe_enter(h, media, kwargs, cb, parallel, begin) ==
    /\ h_pc[h] = "ready"
    /\ h_calls[h] < MaxCalls
    /\ serialised => \A g \in Handles \ {h} : ~InCall(g)
    /\ h_calls' = [h_calls EXCEPT ![h] = @ + 1]
    /\ h_cb' = [h_cb EXCEPT ![h] = cb]
    /\ h_delivered' = [h_delivered EXCEPT ![h] = <<>>]
    /\ LET r == set_params(h_params[h], kwargs) IN
         IF media \in {"missing", "unloadable"}
           THEN /\ h_ret' = [h_ret EXCEPT ![h] =
                        Raised(IF media = "missing" THEN "NotFound" ELSE "LoadError")]
                /\ UNCHANGED <<slot, registered, h_pc, h_params, h_hook, h_segs,
                               h_op, h_rc, h_used>>
           ELSE IF r.err # ""
             THEN /\ h_ret' = [h_ret EXCEPT ![h] = Raised(r.err)]
                  /\ h_params' = [h_params EXCEPT ![h] = r.params]
                  /\ UNCHANGED <<slot, registered, h_pc, h_hook, h_segs, h_op,
                                 h_rc, h_used>>
             ELSE /\ h_params' = [h_params EXCEPT ![h] = r.params]
                  /\ slot' = register_callback(slot, cb)
                  /\ registered' = IF cb # "none" THEN cb ELSE registered
                  /\ h_hook' = [h_hook EXCEPT ![h] = @ \/ cb # "none"]
                  /\ h_used' = [h_used EXCEPT ![h] = @ \cup {h_ctx[h]}]
                  /\ h_op' = [h_op EXCEPT ![h] =
                        IF parallel THEN "whisper_full_parallel" ELSE "whisper_full"]
                  /\ CASE begin = "raise" ->
                            /\ h_ret' = [h_ret EXCEPT ![h] = Raised("EngineFailure")]
                            /\ UNCHANGED <<h_pc, h_segs, h_rc>>
                       [] begin = "fail_early" ->
                            /\ h_ret' = [h_ret EXCEPT ![h] = NoResult]
                            /\ h_pc' = [h_pc EXCEPT ![h] = "decoded"]
                            /\ h_rc' = [h_rc EXCEPT ![h] = "failed"]
                            /\ UNCHANGED h_segs
                       [] OTHER ->
                            /\ h_ret' = [h_ret EXCEPT ![h] = NoResult]
                            /\ h_pc' = [h_pc EXCEPT ![h] = "decoding"]
                            /\ h_rc' = [h_rc EXCEPT ![h] = ""]
                            /\ h_segs' = [h_segs EXCEPT ![h] = <<>>]
    /\ UNCHANGED <<serialised, h_ctx, h_frees, h_delfail, outsideHandles>>

\* the engine completes n_new more segments and notifies the hook, if the
\* handle's parameters have one
engine_new_segment(h, n_new) ==
    /\ h_pc[h] = "decoding"
    /\ Len(h_segs[h]) + n_new <= MaxSegs
    /\ LET segs == h_segs[h] \o
                     [i \in 1..n_new |-> RawSegment(h_calls[h], Len(h_segs[h]) + i)]
       IN /\ h_segs' = [h_segs EXCEPT ![h] = segs]
          /\ h_delivered' =
               IF h_hook[h]
                 THEN [h_delivered EXCEPT ![h] =
                         @ \o call_new_segment_callback(segs, n_new, slot)]
                 ELSE h_delivered
    /\ UNCHANGED <<serialised, slot, registered, h_pc, h_ctx, h_params, h_hook,
                   h_calls, h_cb, h_op, h_rc, h_ret, h_used, h_frees,
                   h_delfail, outsideHandles>>

\* whisper_full / whisper_full_parallel returns: 0, or an error code
engine_decode_end(h, ok) ==
    /\ h_pc[h] = "decoding"
    /\ h_pc' = [h_pc EXCEPT ![h] = "decoded"]
    /\ h_rc' = [h_rc EXCEPT ![h] = IF ok THEN "ok" ELSE "failed"]
    /\ UNCHANGED <<serialised, slot, registered, h_ctx, h_params, h_hook,
                   h_segs, h_calls, h_cb, h_op, h_delivered, h_ret, h_used,
                   h_frees, h_delfail, outsideHandles>>

\* Model._transcribe after the decode, and the rest of transcribe: the
\* decode's return value is dropped, every segment of the context is read
transcribe_finish(h) ==
    /\ h_pc[h] = "decoded"
    /\ h_pc' = [h_pc EXCEPT ![h] = "ready"]
    /\ h_used' = [h_used EXCEPT ![h] = @ \cup {h_ctx[h]}]
    /\ h_ret' = [h_ret EXCEPT ![h] =
                    [kind |-> "value",
                     segs |-> get_segments(h_segs[h], 0, Len(h_segs[h])),
                     lang |-> LangOf(h_segs[h]), rc |-> h_rc[h], err |-> ""]]
    /\ UNCHANGED <<serialised, slot, registered, h_ctx, h_params, h_hook,
                   h_segs, h_calls, h_cb, h_op, h_rc, h_delivered, h_frees,
                   h_delfail, outsideHandles>>

\* Model.auto_detect_language
auto_detect_language(h, media) ==
    /\ h_pc[h] = "ready"
    /\ h_calls[h] < MaxCalls
    /\ h_calls' = [h_calls EXCEPT ![h] = @ + 1]
    /\ IF media \in {"missing", "unloadable"}
         THEN /\ h_ret' = [h_ret EXCEPT ![h] =
                      Raised(IF media = "missing" THEN "NotFound" ELSE "LoadError")]
              /\ UNCHANGED <<h_used, h_op>>
         ELSE /\ h_used' = [h_used EXCEPT ![h] = @ \cup {h_ctx[h]}]
              /\ h_op' = [h_op EXCEPT ![h] = "whisper_lang_auto_detect"]
              /\ h_ret' = [h_ret EXCEPT ![h] =
                      [kind |-> "detected", segs |-> <<>>, lang |-> "en",
                       rc |-> "", err |-> ""]]
    /\ UNCHANGED <<serialised, slot, registered, h_pc, h_ctx, h_params, h_hook,
                   h_segs, h_cb, h_rc, h_delivered, h_frees, h_delfail,
                   outsideHandles>>

\* Model.__del__: pw.whisper_free(self._ctx)
del_(h) ==
    /\ h_pc[h] \in {"ready", "failed"}
    /\ h_pc' = [h_pc EXCEPT ![h] = "deleted"]
    /\ IF h_ctx[h] = "unset"
         THEN \* AttributeError: the object has no _ctx
              /\ h_delfail' = [h_delfail EXCEPT ![h] = TRUE]
              /\ UNCHANGED <<h_frees, h_ctx>>
         ELSE /\ h_frees' = [h_frees EXCEPT ![h] = @ + 1]
              /\ h_ctx' = [h_ctx EXCEPT ![h] = IF @ = "live" THEN "freed" ELSE @]
              /\ UNCHANGED h_delfail
    /\ UNCHANGED <<serialised, slot, registered, h_params, h_hook, h_segs,
                   h_calls, h_cb, h_op, h_rc, h_delivered, h_ret, h_used,
                   outsideHandles>>

(***************************************************************************)
(* The specifications.                                                     *)
(***************************************************************************)
InitLoad ==
    /\ LoadIdle
    /\ ParamsIdle
    /\ HandlesIdle
    /\ serialised = TRUE

\* a new call starts from a clean record of what the call did
NextLoad ==
    \/ \E m \in Paths : load_audio_call(m)
    \/ \E m \in Paths \cup {NdArray} : transcribe_resolve(m)
    \/ \E m \in Paths \cup {NdArray} : detect_resolve(m)
    \/ load_audio_dispatch
    \/ \E installed \in BOOLEAN : load_audio_which(installed)
    \/ load_audio_mktemp
    \/ \E exit0 \in BOOLEAN, c \in Contents : load_audio_convert(exit0, c)
    \/ load_audio_parse
    \/ load_audio_finally
    \/ continue_to_engine

SpecLoad == InitLoad /\ [][NextLoad]_vars

InitParams ==
    /\ LoadIdle
    /\ ParamsIdle
    /\ HandlesIdle
    /\ serialised = TRUE

NextParams ==
    \/ \E s \in Strategies, kw \in Kwargs : params_construct(s, kw)
    \/ \E kw \in Kwargs : params_transcribe(kw)


SpecParams == InitParams /\ [][NextParams]_vars

\* One handle, every way its operations can go.
Init ==
    /\ LoadIdle
    /\ ParamsIdle
    /\ HandlesIdle
    /\ serialised = TRUE

Next ==
    \/ \E s \in Strategies, resolved \in BOOLEAN, kw \in HandleKwargs,
          init \in {"ok", "null", "raise"} : construct("A", s, resolved, kw, init)
    \/ \E media \in MediaKinds, kw \in HandleKwargs, cb \in Callbacks \cup {"none"},
          parallel \in BOOLEAN, begin \in {"run", "fail_early", "raise"} :
            transcribe_enter("A", media, kw, cb, parallel, begin)
    \/ \E n_new \in 1..MaxSegs : engine_new_segment("A", n_new)
    \/ \E ok \in BOOLEAN : engine_decode_end("A", ok)
    \/ transcribe_finish("A")
    \/ \E media \in MediaKinds : auto_detect_language("A", media)
    \/ del_("A")

Spec == Init /\ [][Next]_vars

\* Two handles whose calls go well, the caller serialising its transcribe
\* calls or not.
InitShared ==
    /\ LoadIdle
    /\ ParamsIdle
    /\ HandlesIdle
    /\ serialised \in BOOLEAN

NextShared ==
    \E h \in Handles :
        \/ construct(h, "GREEDY", TRUE, <<>>, "ok")
        \/ \E cb \in Callbacks \cup {"none"} :
              transcribe_enter(h, "ndarray", <<>>, cb, FALSE, "run")
        \/ \E n_new \in 1..MaxSegs : engine_new_segment(h, n_new)
        \/ engine_decode_end(h, TRUE)
        \/ transcribe_finish(h)
        \/ auto_detect_language(h, "ndarray")
        \/ del_(h)

SpecShared == InitShared /\ [][NextShared]_vars

(***************************************************************************)
(* Properties of the loader.                                               *)
(***************************************************************************)
LoadEnded == l_pc \in {"returned", "raised"}

\* C5: when a load of a non-WAV path has returned or raised, the temporary
\* WAV file it created no longer exists, whichever way the call ended; and
\* a call that failed because the conversion tool is not on the search path
\* created no temporary file at all.
C5_TempFileGone ==
    /\ LoadEnded => ~l_temp.exists
    /\ l_err = "ConversionUnavailable" => l_temps = 0 /\ l_runs = 0

\* a load whose converted file failed to parse has ended, its file removed
C5_Witness ==
    /\ l_pc = "raised"
    /\ l_err = "FormatError"
    /\ ~l_media.wav
    /\ l_temps = 1
    /\ l_runs = 1
    /\ ~l_temp.exists

NoConversionAttempt ==
    /\ l_lookups = 0
    /\ l_temps = 0
    /\ l_runs = 0
    /\ ~l_continued
    /\ LoadEnded => l_pc = "raised" /\ l_err = "NotFound"

MissingPath == l_pc # "idle" /\ ~l_media.nd /\ ~l_media.exists

\* C6 (as claimed): a load of a nonexistent path, by any route (a direct
\* _load_audio call, transcribe, auto_detect_language), ends in NotFound
\* with no conversion-tool lookup, no temporary file, no converter process
\* and no engine call.
C6_NotFoundBeforeConversion == MissingPath => NoConversionAttempt

\* C6 (amended): a load of a nonexistent path through transcribe or
\* auto_detect_language, or of a nonexistent path named *.wav, ends in
\* NotFound with no conversion attempt and no engine call; a direct
\* _load_audio call on a nonexistent path not named *.wav ends in
\* ConversionUnavailable or ConversionFailed, never in a buffer.
C6_NotFoundThroughCallers ==
    MissingPath =>
        /\ (l_caller \in {"transcribe", "detect"} \/ l_media.wav) => NoConversionAttempt
        /\ (l_caller = "direct" /\ ~l_media.wav /\ LoadEnded) =>
              /\ l_pc = "raised"
              /\ l_err \in {"ConversionUnavailable", "ConversionFailed"}
              /\ ~l_continued

\* transcribe was given a nonexistent path not named *.wav and raised
C6_Witness ==
    /\ l_caller = "transcribe"
    /\ MissingPath
    /\ ~l_media.wav
    /\ l_pc = "raised"
    /\ l_err = "NotFound"

HeaderAccepted(c) ==
    /\ c.nchannels \in {1, 2}
    /\ c.framerate = 16000
    /\ c.sampwidth = 2

\* C9: a load of a WAV file succeeds exactly when the file has 1 or 2
\* channels, 16000 Hz and 2-byte samples: then the buffer holds one sample
\* per frame, for mono and stereo alike; otherwise the load fails with a
\* format error and returns no buffer.
C9_WavFormat ==
    (LoadEnded /\ ~l_media.nd /\ l_media.wav /\ l_media.exists /\ l_media.content.riff) =>
        IF HeaderAccepted(l_media.content)
          THEN /\ l_pc = "returned"
               /\ Len(l_audio) = l_media.content.nframes
          ELSE /\ l_pc = "raised"
               /\ l_err = "FormatError"
               /\ l_audio = <<>>

\* a stereo file of the longest payload was loaded
C9_Witness ==
    /\ l_pc = "returned"
    /\ ~l_media.nd /\ l_media.wav
    /\ l_media.content.nchannels = 2
    /\ l_media.content.nframes = MaxFrames
    /\ Len(l_audio) = MaxFrames

(***************************************************************************)
(* Properties of parameter assignment.                                     *)
(***************************************************************************)
Unrecognised(kw) == { i \in DOMAIN kw : kw[i][1] \notin DOMAIN p_before }

FirstUnrecognised(kw) ==
    CHOOSE i \in Unrecognised(kw) : \A j \in Unrecognised(kw) : i <= j

\* C4 (as claimed): a _set_params call whose overrides hold an unrecognised
\* name fails with a usage error and leaves every field of the parameter
\* set at the value it had before the call.
C4_FailedApplyChangesNothing ==
    /\ (Unrecognised(p_kwargs) # {}) <=> (p_err = "UsageError")
    /\ p_err = "UsageError" => p_params = p_before

\* C4 (amended): a _set_params call whose overrides hold an unrecognised
\* name fails with a usage error; the fields named before the first
\* unrecognised name, in the mapping's order, then hold their override
\* values, and every other field its value from before the call.
C4_FailedApplyKeepsPrefix ==
    /\ (Unrecognised(p_kwargs) # {}) <=> (p_err = "UsageError")
    /\ p_err = "UsageError" =>
         LET k == FirstUnrecognised(p_kwargs) IN
         \A f \in DOMAIN p_before :
            IF \E i \in 1..(k - 1) : p_kwargs[i][1] = f
              THEN \E i \in 1..(k - 1) : p_kwargs[i][1] = f /\ p_params[f] = p_kwargs[i][2]
              ELSE p_params[f] = p_before[f]

\* transcribe's overrides set a field and then named an unrecognised one
C4_Witness ==
    /\ p_pc = "ready"
    /\ p_err = "UsageError"
    /\ Len(p_kwargs) = 2
    /\ p_params # p_before


(***************************************************************************)
(* Properties of Model handles.                                            *)
(***************************************************************************)
\* C1: once a handle is torn down, whatever its construction and its calls
\* did, whisper_free has been called at most once, once for a context that
\* was created, and __del__ did not fail, also when construction stopped
\* before self._ctx was assigned.
C1_ContextFreedExactlyOnce ==
    \A h \in Handles :
        /\ h_frees[h] <= 1
        /\ h_pc[h] = "deleted" =>
              /\ ~h_delfail[h]
              /\ h_ctx[h] # "live"
              /\ h_ctx[h] = "freed" => h_frees[h] = 1

\* C2: every context transcribe or auto_detect_language passed to the
\* engine was one whisper_init_from_file had initialised and __del__ had
\* not yet released.
C2_EngineSeesLiveContext ==
    \A h \in Handles : h_used[h] \subseteq {"live"}

\* C3: transcribe returns a (segments, language) result only after a decode
\* that succeeded; a failed decode returns no segment list.
C3_FailedDecodeReturnsNothing ==
    \A h \in Handles : h_ret[h].kind = "value" => h_ret[h].rc = "ok"

Delivered(h) == [i \in 1..Len(h_delivered[h]) |-> h_delivered[h][i].seg]

Produced(h) == [i \in 1..Len(h_segs[h]) |-> Segment(h_segs[h][i])]

\* C7: in a transcribe call given a callback, the callback has been invoked
\* exactly once, in index order, for each segment the engine has completed
\* so far, all of them before the call returns; and what the call returns
\* after a successful decode is the list S1..Sk of the segments delivered.
C7_CallbackSeesEverySegment ==
    \A h \in Handles :
        h_cb[h] # "none" =>
            /\ (InCall(h) /\ h_rc[h] # "failed") =>
                  /\ Delivered(h) = Produced(h)
                  /\ \A i \in DOMAIN h_delivered[h] : h_delivered[h][i].to = h_cb[h]
            /\ (h_pc[h] = "ready" /\ h_ret[h].kind = "value" /\ h_ret[h].rc = "ok") =>
                  /\ Delivered(h) = h_ret[h].segs
                  /\ h_ret[h].segs = Produced(h)
                  /\ \A i \in DOMAIN h_delivered[h] : h_delivered[h][i].to = h_cb[h]

\* a call with a callback returned the most segments a decode produces
C7_Witness ==
    /\ h_pc["A"] = "ready"
    /\ h_cb["A"] = "cbA"
    /\ h_ret["A"].kind = "value"
    /\ h_ret["A"].rc = "ok"
    /\ Len(h_ret["A"].segs) = MaxSegs
    /\ Len(h_delivered["A"]) = MaxSegs

\* C8: there is one slot for all handles; when the caller serialises its
\* transcribe calls, every segment goes to the callback of the call that
\* produced it.  (Unserialised, C8_Witness is reached: every segment of a
\* call given cbA went to cbB.)
C8_SerialisedCallsKeepTheirCallback ==
    serialised =>
        \A h \in Handles :
            h_cb[h] # "none" =>
                \A i \in DOMAIN h_delivered[h] : h_delivered[h][i].to = h_cb[h]

\* two interleaved calls: A's, given cbA, has returned, and each of its
\* segments was delivered to B's cbB
C8_Witness ==
    /\ ~serialised
    /\ h_cb["A"] = "cbA"
    /\ h_cb["B"] = "cbB"
    /\ h_pc["A"] = "ready"
    /\ h_ret["A"].kind = "value"
    /\ Len(h_delivered["A"]) = MaxSegs
    /\ \A i \in DOMAIN h_delivered["A"] : h_delivered["A"][i].to = "cbB"

SlotKept ==
    /\ slot = registered
    /\ \A h \in Handles : h_hook[h] => slot # "none"

LaterCallsStillDelivered ==
    \A h \in Handles :
        (h_hook[h] /\ h_cb[h] = "none" /\ InCall(h)) =>
            /\ Delivered(h) = Produced(h)
            /\ \A i \in DOMAIN h_delivered[h] :
                  /\ h_delivered[h][i].to \in Callbacks
                  /\ serialised => h_delivered[h][i].to = registered

HookKept ==
    /\ \A h \in Handles : h_hook[h] => h_hook'[h]
    /\ slot # "none" => slot' # "none"

\* C10: no operation clears a handle's hook or the slot, the slot holds the
\* callback most recently registered by any handle, and a later transcribe
\* call on a hooked handle that supplies no callback has each of its
\* segments delivered to that callback.
C10_RegistrationIsSticky ==
    /\ [](SlotKept /\ LaterCallsStillDelivered)
    /\ [][HookKept]_vars

\* A's second call, given no callback, returned; its segments went to cbB
C10_Witness ==
    /\ serialised
    /\ h_calls["A"] = 2
    /\ h_cb["A"] = "none"
    /\ h_pc["A"] = "ready"
    /\ h_ret["A"].kind = "value"
    /\ Len(h_delivered["A"]) = MaxSegs
    /\ \A i \in DOMAIN h_delivered["A"] : h_delivered["A"][i].to = "cbB"

====
